---- MODULE Spec2Model ----
(***************************************************************************)
(* Model of the ARGO ingestion pipeline (floatchat.pipeline): the          *)
(* orchestrator stream_multiple_floats, its fetch_worker producers, the    *)
(* single db_writer consumer, the two-tier fetch client and the storage    *)
(* writer of ArgoStreamProcessor.                                          *)
(***************************************************************************)
EXTENDS Integers, Sequences, FiniteSets, TLC

\* ---------------------------------------------------------------- bounds
MaxFloats == 2      \* most units a directory listing returns
MaxProf == 1        \* largest N_PROF of a dataset
MaxLevels == 1      \* largest N_LEVELS of a dataset
RerunUnits == 1     \* most units of a run that is run a second time
MaxSql == 4         \* most tokens of a SQL text given to query_database
MaxLinks == 2       \* most anchors on a float's catalog page
MaxRows == 2        \* most rows on a data center's catalog page
MaxCount == 2       \* largest max_floats passed to list_floats
XProf == 2          \* largest N_PROF of a dataset whose cells are read
XLevels == 3        \* largest N_LEVELS of a dataset whose cells are read

\* ThreadPoolExecutor(max_workers=5)
max_workers == 5

\* Python's None, for values that are tuples here (paths, the summary)
None == << >>
\* unit ids: opaque digit strings, numbered here by first appearance
Units == 1..MaxFloats

\* ------------------------------------------------------------- datasets
\* A remote dataset, as far as the pipeline reads it: whether it has data
\* variables (the truth value of an xarray Dataset), its two dimension sizes
\* and whether the pressure variable holds valid values ("valid") or is
\* absent / fill-valued ("fill").  A dataset without data variables has no
\* pressure variable; its dimensions are never read.
Datasets ==
    { d \in [data_vars : BOOLEAN, N_PROF : 0..MaxProf, N_LEVELS : 0..MaxLevels,
             PRES : {"valid", "fill"}] :
        /\ (~d.data_vars => d.N_PROF = 0 /\ d.N_LEVELS = 0)
        /\ (d.N_PROF * d.N_LEVELS = 0 => d.PRES = "fill") }

\* extract_profiles: one row per profile index 0..N_PROF-1
extract_profiles(ds, float_id) ==
    [k \in 1..ds.N_PROF |-> [float_id |-> float_id, profile_id |-> k - 1]]

\* extract_measurements: one row per (profile, level) whose pressure is valid,
\* profile-major
extract_measurements(ds, float_id) ==
    IF ds.PRES = "valid"
    THEN [k \in 1..(ds.N_PROF * ds.N_LEVELS) |->
            [float_id |-> float_id,
             profile_id |-> (k - 1) \div ds.N_LEVELS,
             level |-> (k - 1) % ds.N_LEVELS]]
    ELSE << >>

\* the listings list_floats can return: sorted, at most MaxFloats entries; an
\* entry the directory page repeats appears twice (ids are not de-duplicated)
FloatLists ==
    { s \in UNION { [1..n -> Units] : n \in 0..MaxFloats } :
        /\ (Len(s) > 0 => s[1] = 1)
        /\ \A k \in 1..(Len(s) - 1) : s[k + 1] \in {s[k], s[k] + 1} }

\* f"temp_{float_id}.nc"
local_filename(float_id) == <<"temp", float_id>>

VARIABLES
    pc,             \* orchestrator position in stream_multiple_floats
    save_parquet,   \* run parameter
    floats,         \* result of list_floats
    wk,             \* fetch workers: position -> [pc, local_file, where]
    datasets,       \* dataset objects, one per worker position
    files,          \* temporary files on disk
    write_queue,    \* queue.Queue of messages
    wpc,            \* db_writer position
    active,         \* db_writer's local flag
    item,           \* db_writer's current item
    success_count,  \* success_count[0]
    db,             \* relational store: rows of the two tables, indexes
    parquet,        \* snapshot files written
    report,         \* the final summary, None until logged
    \* history
    enqueued,       \* positions whose DATA message was put, in put order
    written,        \* positions for which the writer called stream_to_sql
    sentinels,      \* number of DONE messages put
    in_write,       \* threads inside stream_to_sql / stream_to_parquet
    wrote,          \* position -> write steps that completed
    failed_fetch,   \* positions whose two fetch tiers both failed
    io_errors,      \* storage calls that raised an I/O error
    index_calls,    \* number of create_indexes invocations
    first_run,      \* what an earlier run of the pipeline did, NoRun if none
    \* library functions called on their own
    call            \* [fn, args, ret]: a call of a client / processor function

pipeline_vars ==
    <<pc, save_parquet, floats, wk, datasets, files, write_queue, wpc, active,
      item, success_count, db, parquet, report, enqueued, written, sentinels,
      in_write, wrote, failed_fetch, io_errors, index_calls, first_run>>

vars == <<pipeline_vars, call>>

orch_vars == <<pc, floats, report, sentinels, index_calls, first_run>>
writer_vars == <<wpc, active, item, success_count, written, in_write, wrote>>
store_vars == <<db, parquet, io_errors>>
worker_vars == <<wk, files, enqueued, failed_fetch>>

Pos == 1..Len(floats)
NoDs == [state |-> "none"]
NoItem == [type |-> "NONE"]
NoCall == [fn |-> "none"]
NoRun == [run |-> "none"]

PipelineInit ==
    /\ pc = "discover"
    /\ save_parquet \in BOOLEAN
    /\ floats = << >>
    /\ wk = << >>
    /\ datasets = << >>
    /\ files = {}
    /\ write_queue = << >>
    /\ wpc = "idle"
    /\ active = FALSE
    /\ item = NoItem
    /\ success_count = 0
    /\ db = [profiles |-> << >>, measurements |-> << >>, indexes |-> FALSE]
    /\ parquet = {}
    /\ report = None
    /\ enqueued = << >>
    /\ written = << >>
    /\ sentinels = 0
    /\ in_write = {}
    /\ wrote = << >>
    /\ failed_fetch = {}
    /\ io_errors = {}
    /\ index_calls = 0
    /\ first_run = NoRun

Init == PipelineInit /\ call = NoCall

\* ----------------------------------------------------------- orchestrator
\* faulty variant: the run goes on with an empty list
AfterDiscover_go(fl) == "start_writer"

\* if not floats: logger.error("No floats found"); return
AfterDiscover(fl) == IF fl = << >> THEN "aborted" ELSE "start_writer"

\* floats = api.list_floats(data_center, max_floats=num_floats)
Discover ==
    /\ pc = "discover"
    /\ \E fl \in FloatLists :
        /\ floats' = fl
        /\ pc' = AfterDiscover(fl)
    /\ UNCHANGED <<save_parquet, wk, datasets, files, write_queue, wpc, active,
                   item, success_count, db, parquet, report, enqueued, written,
                   sentinels, in_write, wrote, failed_fetch, io_errors,
                   index_calls, first_run>>

\* writer_thread = threading.Thread(target=db_writer); writer_thread.start()
StartWriter ==
    /\ pc = "start_writer"
    /\ wpc' = "loop"
    /\ active' = TRUE
    /\ pc' = "submit"
    /\ UNCHANGED <<save_parquet, floats, wk, datasets, files, write_queue, item,
                   success_count, db, parquet, report, enqueued, written,
                   sentinels, in_write, wrote, failed_fetch, io_errors,
                   index_calls, first_run>>

\* futures = {executor.submit(fetch_worker, fid): fid for fid in floats}
Submit ==
    /\ pc = "submit"
    /\ wk' = [i \in Pos |-> [pc |-> "queued", local_file |-> None, where |-> "client"]]
    /\ datasets' = [i \in Pos |-> NoDs]
    /\ wrote' = [i \in Pos |-> {}]
    /\ pc' = "wait"
    /\ UNCHANGED <<save_parquet, floats, files, write_queue, wpc, active, item,
                   success_count, db, parquet, report, enqueued, written,
                   sentinels, in_write, failed_fetch, io_errors,
                   index_calls, first_run>>

\* faulty variant: a LIFO queue
QueuePut_lifo(q, m) == <<m>> \o q

\* queue.Queue.put: FIFO
QueuePut(q, m) == Append(q, m)

\* faulty variant: the sentinel is put without waiting for the pool
ExecutorDone_nowait == TRUE

\* as_completed(futures) drained and the executor's with-block left:
\* every fetch_worker has returned
ExecutorDone == \A i \in Pos : wk[i].pc = "done"

\* write_queue.put({'type': 'DONE'})
Signal ==
    /\ pc = "wait"
    /\ ExecutorDone
    /\ write_queue' = QueuePut(write_queue, [type |-> "DONE"])
    /\ sentinels' = sentinels + 1
    /\ pc' = "join"
    /\ UNCHANGED <<save_parquet, floats, wk, datasets, files, wpc, active, item,
                   success_count, db, parquet, report, enqueued, written,
                   in_write, wrote, failed_fetch, io_errors,
                   index_calls, first_run>>

\* writer_thread.join()
JoinWriter ==
    /\ pc = "join"
    /\ wpc = "done"
    /\ pc' = "index"
    /\ UNCHANGED <<save_parquet, floats, wk, datasets, files, write_queue, wpc,
                   active, item, success_count, db, parquet, report, enqueued,
                   written, sentinels, in_write, wrote, failed_fetch, io_errors,
                   index_calls, first_run>>

\* a table exists once a non-empty frame was appended to it (to_sql creates it)
TableExists(t) == db[t] # << >>

\* faulty variant: the indexes are built whatever the count
ShouldIndex_always == TRUE

\* if success_count[0] > 0:
ShouldIndex == success_count > 0

\* if success_count[0] > 0: processor.create_indexes(db_url) -- not guarded by
\* any try: CREATE INDEX on a table that does not exist, or an I/O error,
\* propagates out of stream_multiple_floats
Index ==
    /\ pc = "index"
    /\ \/ /\ ShouldIndex
          /\ index_calls' = index_calls + 1
          /\ \/ /\ TableExists("profiles") /\ TableExists("measurements")
                /\ db' = [db EXCEPT !.indexes = TRUE]
                /\ pc' = "report"
                /\ UNCHANGED io_errors
             \/ /\ ~(TableExists("profiles") /\ TableExists("measurements"))
                /\ pc' = "raised"
                /\ UNCHANGED <<db, io_errors>>
             \/ /\ TableExists("profiles") /\ TableExists("measurements")
                /\ io_errors' = io_errors \cup {<<"index", 0>>}
                /\ pc' = "raised"
                /\ UNCHANGED db
       \/ /\ ~ShouldIndex
          /\ pc' = "report"
          /\ UNCHANGED <<db, io_errors, index_calls>>
    /\ UNCHANGED <<save_parquet, floats, wk, datasets, files, write_queue, wpc,
                   active, item, success_count, parquet, report, enqueued,
                   written, sentinels, in_write, wrote, failed_fetch, first_run>>

\* logger.info("Complete! Successfully processed {success_count[0]}/{len(floats)}")
Report ==
    /\ pc = "report"
    /\ report' = <<success_count, Len(floats)>>
    /\ pc' = "done"
    /\ UNCHANGED <<save_parquet, floats, wk, datasets, files, write_queue, wpc,
                   active, item, success_count, db, parquet, enqueued, written,
                   sentinels, in_write, wrote, failed_fetch, io_errors,
                   index_calls, first_run>>

\* ---------------------------------------------------------- fetch workers
Running == Cardinality({i \in Pos : wk[i].pc \notin {"queued", "done"}})

\* faulty variant: a failed fetch is submitted again
ReturnFalse_retry(i, bothTiersFailed) ==
    /\ wk' = [wk EXCEPT ![i] = [pc |-> "queued", local_file |-> None, where |-> "client"]]
    /\ failed_fetch' = IF bothTiersFailed THEN failed_fetch \cup {i} ELSE failed_fetch

\* fetch_worker returns False without having enqueued anything
ReturnFalse(i, bothTiersFailed) ==
    /\ wk' = [wk EXCEPT ![i].pc = "done"]
    /\ failed_fetch' = IF bothTiersFailed THEN failed_fetch \cup {i} ELSE failed_fetch

\* faulty variant: no download tier, a streaming failure ends the fetch
FetchStream_nofallback(i) ==
    /\ wk[i].pc = "queued"
    /\ Running < max_workers
    /\ \/ /\ \E d \in Datasets :
                datasets' = [datasets EXCEPT
                    ![i] = [state |-> "open", loaded |-> FALSE, content |-> d]]
          /\ wk' = [wk EXCEPT ![i].pc = "check"]
          /\ UNCHANGED failed_fetch
       \/ /\ ReturnFalse(i, TRUE)
          /\ UNCHANGED datasets
    /\ UNCHANGED <<orch_vars, writer_vars, store_vars, save_parquet, files,
                   write_queue, enqueued>>

\* a pool thread picks the submitted call up and runs fetch_float_data,
\* method 1: get_opendap_url always yields a URL; xr.open_dataset(url) and
\* ds.sizes succeed (dataset open, not loaded) or raise
FetchStream(i) ==
    /\ wk[i].pc = "queued"
    /\ Running < max_workers
    /\ \/ \E d \in Datasets :
            /\ datasets' = [datasets EXCEPT
                    ![i] = [state |-> "open", loaded |-> FALSE, content |-> d]]
            /\ wk' = [wk EXCEPT ![i].pc = "check"]
       \/ /\ wk' = [wk EXCEPT ![i].pc = "dl_get"]
          /\ UNCHANGED datasets
    /\ UNCHANGED <<orch_vars, writer_vars, store_vars, save_parquet, files,
                   write_queue, enqueued, failed_fetch>>

\* download_file: session.get + raise_for_status, then open(local_filename,'wb')
\* creates or truncates the file; a failed request returns None
DownloadRequest(i) ==
    /\ wk[i].pc = "dl_get"
    /\ \/ /\ files' = files \cup {local_filename(floats[i])}
          /\ wk' = [wk EXCEPT ![i].pc = "dl_body"]
          /\ UNCHANGED failed_fetch
       \/ /\ ReturnFalse(i, TRUE)
          /\ UNCHANGED files
    /\ UNCHANGED <<orch_vars, writer_vars, store_vars, save_parquet, datasets,
                   write_queue, enqueued>>

\* download_file: the chunk loop; an error in it returns None and leaves the
\* file on disk
DownloadBody(i) ==
    /\ wk[i].pc = "dl_body"
    /\ \/ /\ wk' = [wk EXCEPT ![i].pc = "open_local",
                              ![i].local_file = local_filename(floats[i])]
          /\ UNCHANGED failed_fetch
       \/ ReturnFalse(i, TRUE)
    /\ UNCHANGED <<orch_vars, writer_vars, store_vars, save_parquet, datasets,
                   files, write_queue, enqueued>>

\* xr.open_dataset(local_file); ds.load(); ds.close() -- in fetch_float_data
\* (method 2) or in fetch_worker's fallback; on an error the file is removed
OpenLocal(i) ==
    /\ wk[i].pc = "open_local"
    /\ \/ /\ wk[i].local_file \in files
          /\ \E d \in Datasets :
                /\ (wk[i].where = "worker" => d = datasets[i].content)
                /\ datasets' = [datasets EXCEPT
                        ![i] = [state |-> "closed", loaded |-> TRUE, content |-> d]]
          /\ wk' = [wk EXCEPT ![i].pc = IF wk[i].where = "client" THEN "check" ELSE "put"]
          /\ UNCHANGED <<files, failed_fetch>>
       \/ /\ files' = files \ {wk[i].local_file}
          /\ ReturnFalse(i, TRUE)
          /\ UNCHANGED datasets
    /\ UNCHANGED <<orch_vars, writer_vars, store_vars, save_parquet, write_queue,
                   enqueued>>

\* faulty variant: the streamed dataset is enqueued without ds.load()
CheckLoad_noload(i) ==
    /\ wk[i].pc = "check"
    /\ \/ /\ ~datasets[i].content.data_vars
          /\ ReturnFalse(i, FALSE)
       \/ /\ datasets[i].content.data_vars
          /\ wk' = [wk EXCEPT ![i].pc = "put"]
          /\ UNCHANGED failed_fetch
    /\ UNCHANGED <<orch_vars, writer_vars, store_vars, save_parquet, files,
                   write_queue, enqueued, datasets>>

\* fetch_float_data returned a dataset.  `if ds:` -- a Dataset without data
\* variables is falsy and the worker falls through to `return False`.
\* `if not local_file:` -- ds.load() on the streaming path; on an error the
\* dataset is closed and the worker falls back to download_file
CheckLoad(i) ==
    /\ wk[i].pc = "check"
    /\ \/ /\ ~datasets[i].content.data_vars
          /\ ReturnFalse(i, FALSE)
          /\ UNCHANGED datasets
       \/ /\ datasets[i].content.data_vars
          /\ wk[i].local_file # None
          /\ wk' = [wk EXCEPT ![i].pc = "put"]
          /\ UNCHANGED <<datasets, failed_fetch>>
       \/ /\ datasets[i].content.data_vars
          /\ wk[i].local_file = None
          /\ datasets' = [datasets EXCEPT ![i].loaded = TRUE]
          /\ wk' = [wk EXCEPT ![i].pc = "put"]
          /\ UNCHANGED failed_fetch
       \/ /\ datasets[i].content.data_vars
          /\ wk[i].local_file = None
          /\ datasets' = [datasets EXCEPT ![i].state = "closed"]
          /\ wk' = [wk EXCEPT ![i].pc = "dl_get", ![i].where = "worker"]
          /\ UNCHANGED failed_fetch
    /\ UNCHANGED <<orch_vars, writer_vars, store_vars, save_parquet, files,
                   write_queue, enqueued>>

\* faulty variant: the worker appends the unit's rows itself instead of handing the
\* dataset to the writer
Put_direct(i) ==
    /\ wk[i].pc = "put"
    /\ in_write' = in_write \cup {<<"worker", i>>}
    /\ db' = [db EXCEPT !.profiles = @ \o extract_profiles(datasets[i].content, floats[i])]
    /\ wk' = [wk EXCEPT ![i].pc = "cleanup"]
    /\ UNCHANGED <<orch_vars, save_parquet, datasets, files, write_queue, wpc,
                   active, item, success_count, written, wrote, parquet,
                   io_errors, enqueued, failed_fetch>>

\* write_queue.put({'type': 'DATA', 'float_id': float_id, 'dataset': ds})
Put(i) ==
    /\ wk[i].pc = "put"
    /\ write_queue' = QueuePut(write_queue,
            [type |-> "DATA", float_id |-> floats[i], dataset |-> i])
    /\ enqueued' = Append(enqueued, i)
    /\ wk' = [wk EXCEPT ![i].pc = "cleanup"]
    /\ UNCHANGED <<orch_vars, writer_vars, store_vars, save_parquet, datasets,
                   files, failed_fetch>>

\* faulty variant: the worker leaves the temporary file to the writer
Cleanup_keep(i) ==
    /\ wk[i].pc = "cleanup"
    /\ wk' = [wk EXCEPT ![i].pc = "done"]
    /\ UNCHANGED <<orch_vars, writer_vars, store_vars, save_parquet, datasets,
                   files, write_queue, enqueued, failed_fetch>>

\* if local_file and os.path.exists(local_file): os.remove(local_file)
Cleanup(i) ==
    /\ wk[i].pc = "cleanup"
    /\ files' = IF wk[i].local_file # None THEN files \ {wk[i].local_file} ELSE files
    /\ wk' = [wk EXCEPT ![i].pc = "done"]
    /\ UNCHANGED <<orch_vars, writer_vars, store_vars, save_parquet, datasets,
                   write_queue, enqueued, failed_fetch>>

Worker(i) ==
    \/ FetchStream(i) \/ DownloadRequest(i) \/ DownloadBody(i) \/ OpenLocal(i)
    \/ CheckLoad(i) \/ Put(i) \/ Cleanup(i)

\* ------------------------------------------------------------- db_writer
writer == <<"writer", 0>>

\* faulty variant: the writer stops as soon as it finds the queue empty
WriterLoopCond_nonempty == write_queue # << >>

\* while active or not write_queue.empty()
WriterLoopCond == active \/ write_queue # << >>

\* the dataset and unit id of the DATA item in hand
ItemDs == datasets[item.dataset].content
ItemProfiles == extract_profiles(ItemDs, item.float_id)
ItemMeasurements == extract_measurements(ItemDs, item.float_id)

\* item = write_queue.get(timeout=1) returned the DONE item
WriterGetDone ==
    /\ wpc = "loop"
    /\ WriterLoopCond
    /\ write_queue # << >>
    /\ Head(write_queue).type = "DONE"
    /\ write_queue' = Tail(write_queue)
    /\ active' = FALSE
    /\ UNCHANGED <<orch_vars, worker_vars, store_vars, save_parquet, datasets,
                   wpc, item, success_count, written, in_write, wrote>>

\* item = write_queue.get(timeout=1) returned a DATA item: enter stream_to_sql
WriterGetData ==
    /\ wpc = "loop"
    /\ WriterLoopCond
    /\ write_queue # << >>
    /\ Head(write_queue).type = "DATA"
    /\ item' = Head(write_queue)
    /\ write_queue' = Tail(write_queue)
    /\ written' = Append(written, Head(write_queue).dataset)
    /\ in_write' = in_write \cup {writer}
    /\ wpc' = "stream_to_sql"
    /\ UNCHANGED <<orch_vars, worker_vars, store_vars, save_parquet, datasets,
                   active, success_count, wrote>>

\* write_queue.get(timeout=1) raised queue.Empty: continue
WriterTimeout ==
    /\ wpc = "loop"
    /\ WriterLoopCond
    /\ write_queue = << >>
    /\ UNCHANGED vars

\* the while condition is false: "DB Writer finished"
WriterExit ==
    /\ wpc = "loop"
    /\ ~WriterLoopCond
    /\ wpc' = "done"
    /\ UNCHANGED <<orch_vars, worker_vars, store_vars, save_parquet, datasets,
                   write_queue, active, item, success_count, written, in_write,
                   wrote>>

\* except Exception: logger.error(...); finally: write_queue.task_done().
\* The unit is not counted and its dataset is not closed.
WriterError ==
    /\ io_errors' = io_errors \cup {<<"unit", item.dataset>>}
    /\ in_write' = in_write \ {writer}
    /\ item' = NoItem
    /\ wpc' = "loop"

\* faulty variant: an upsert, rows already in the table are not added again
to_sql_dedup(table, frame) ==
    table \o SelectSeq(frame, LAMBDA r : \A k \in 1..Len(table) : table[k] # r)

\* df.to_sql(table, engine, if_exists='append', index=False, method='multi')
to_sql(table, frame) == table \o frame

\* stream_to_sql: both frames are extracted first; empty profiles: warn and
\* return; profiles_df.to_sql, then measurements_df.to_sql when that frame is
\* not empty.  Each to_sql appends its whole frame or raises.
WriterStreamToSql ==
    /\ wpc = "stream_to_sql"
    /\ \/ /\ ItemProfiles = << >>
          /\ wpc' = IF save_parquet THEN "stream_to_parquet" ELSE "finish"
          /\ UNCHANGED <<db, wrote, io_errors, in_write, item>>
       \/ /\ ItemProfiles # << >>
          /\ db' = [db EXCEPT !.profiles = to_sql(@, ItemProfiles),
                              !.measurements = to_sql(@, ItemMeasurements)]
          /\ wrote' = [wrote EXCEPT ![item.dataset] = @ \cup {"profiles"} \cup
                        (IF ItemMeasurements # << >> THEN {"measurements"} ELSE {})]
          /\ wpc' = IF save_parquet THEN "stream_to_parquet" ELSE "finish"
          /\ UNCHANGED <<io_errors, in_write, item>>
       \/ /\ ItemProfiles # << >>
          /\ WriterError
          /\ UNCHANGED <<db, wrote>>
       \/ /\ ItemProfiles # << >>
          /\ ItemMeasurements # << >>
          /\ db' = [db EXCEPT !.profiles = to_sql(@, ItemProfiles)]
          /\ wrote' = [wrote EXCEPT ![item.dataset] = @ \cup {"profiles"}]
          /\ WriterError
    /\ UNCHANGED <<orch_vars, worker_vars, save_parquet, datasets, write_queue,
                   active, success_count, written, parquet>>

\* stream_to_parquet: one file per non-empty frame, profiles first
WriterStreamToParquet ==
    /\ wpc = "stream_to_parquet"
    /\ \/ /\ parquet' = parquet \cup
                (IF ItemProfiles # << >> THEN {<<"profiles", item.float_id>>} ELSE {}) \cup
                (IF ItemMeasurements # << >> THEN {<<"measurements", item.float_id>>} ELSE {})
          /\ wrote' = [wrote EXCEPT ![item.dataset] = @ \cup
                (IF ItemProfiles # << >> THEN {"pq_profiles"} ELSE {}) \cup
                (IF ItemMeasurements # << >> THEN {"pq_measurements"} ELSE {})]
          /\ wpc' = "finish"
          /\ UNCHANGED <<io_errors, in_write, item>>
       \/ /\ ItemProfiles # << >>
          /\ WriterError
          /\ UNCHANGED <<parquet, wrote>>
       \/ /\ ItemProfiles # << >>
          /\ ItemMeasurements # << >>
          /\ parquet' = parquet \cup {<<"profiles", item.float_id>>}
          /\ wrote' = [wrote EXCEPT ![item.dataset] = @ \cup {"pq_profiles"}]
          /\ WriterError
    /\ UNCHANGED <<orch_vars, worker_vars, save_parquet, datasets, write_queue,
                   active, success_count, written, db>>

\* faulty variant: the increment is lost
WriterFinish_lost ==
    /\ wpc = "finish"
    /\ success_count' = success_count
    /\ datasets' = [datasets EXCEPT ![item.dataset].state = "closed"]
    /\ in_write' = in_write \ {writer}
    /\ item' = NoItem
    /\ wpc' = "loop"
    /\ UNCHANGED <<orch_vars, worker_vars, store_vars, save_parquet, write_queue,
                   active, written, wrote>>

\* success_count[0] += 1; ds.close(); finally: write_queue.task_done()
WriterFinish ==
    /\ wpc = "finish"
    /\ success_count' = success_count + 1
    /\ datasets' = [datasets EXCEPT ![item.dataset].state = "closed"]
    /\ in_write' = in_write \ {writer}
    /\ item' = NoItem
    /\ wpc' = "loop"
    /\ UNCHANGED <<orch_vars, worker_vars, store_vars, save_parquet, write_queue,
                   active, written, wrote>>

Writer ==
    \/ WriterGetDone \/ WriterGetData \/ WriterTimeout \/ WriterExit
    \/ WriterStreamToSql \/ WriterStreamToParquet \/ WriterFinish

Orchestrator ==
    \/ Discover \/ StartWriter \/ Submit \/ Signal \/ JoinWriter \/ Index \/ Report

\* a run of the pipeline; no library function is called on its own meanwhile
Next ==
    /\ \/ Orchestrator
       \/ Writer
       \/ \E i \in DOMAIN wk : Worker(i)
    /\ UNCHANGED call

Spec == Init /\ [][Next]_vars

\* threads that can run are eventually scheduled
FairSpec == Spec /\ WF_vars(Next)

\* ------------------------------------------------- the pipeline run twice
\* what each position's fetch gave the writer: its dataset, or nothing
Outcomes == [i \in DOMAIN wk |-> IF \E k \in 1..Len(enqueued) : enqueued[k] = i
                                 THEN datasets[i].content ELSE NoDs]

\* stream_multiple_floats is called again once it has returned or raised:
\* the stores and the files on disk stay, everything local to the call is new
Restart ==
    /\ pc \in {"done", "raised"}
    /\ first_run = NoRun
    /\ Len(floats) <= RerunUnits
    /\ first_run' = [floats |-> floats, outcomes |-> Outcomes, wrote |-> wrote,
                     db |-> db]
    /\ pc' = "discover"
    /\ floats' = << >>
    /\ wk' = << >>
    /\ datasets' = << >>
    /\ write_queue' = << >>
    /\ wpc' = "idle"
    /\ active' = FALSE
    /\ item' = NoItem
    /\ success_count' = 0
    /\ report' = None
    /\ enqueued' = << >>
    /\ written' = << >>
    /\ sentinels' = 0
    /\ in_write' = {}
    /\ wrote' = << >>
    /\ failed_fetch' = {}
    /\ io_errors' = {}
    /\ index_calls' = 0
    /\ UNCHANGED <<save_parquet, db, parquet, files, call>>

\* the second run is given the same data center, whose listing is the same
SameListing == (first_run # NoRun /\ pc = "discover") => floats' = first_run.floats

NextRerun ==
    \/ Next /\ SameListing
    \/ Restart

SpecRerun == Init /\ [][NextRerun]_vars

\* ================================================== get_opendap_url alone
\* Text is a sequence of tokens; `t in s`, split, endswith and strip work on
\* tokens.
Contains(s, t) == \E k \in 1..Len(s) : s[k] = t
EndsWith(s, t) == Len(s) > 0 /\ s[Len(s)] = t

\* str.strip(): leading and trailing blanks removed
RECURSIVE lstrip(_)
lstrip(s) == IF s # << >> /\ Head(s) = " " THEN lstrip(Tail(s)) ELSE s
RECURSIVE rstrip(_)
rstrip(s) ==
    IF s # << >> /\ s[Len(s)] = " " THEN rstrip(SubSeq(s, 1, Len(s) - 1)) ELSE s
strip(s) == rstrip(lstrip(s))

\* s.split(sep)[1] for an s that contains sep: what stands between the first
\* and the second sep
RECURSIVE UpTo(_, _)
UpTo(s, sep) ==
    IF s = << >> \/ Head(s) = sep THEN << >> ELSE <<Head(s)>> \o UpTo(Tail(s), sep)
RECURSIVE After(_, _)
After(s, sep) ==
    IF s = << >> THEN << >>
    ELSE IF Head(s) = sep THEN Tail(s) ELSE After(Tail(s), sep)
split_1(s, sep) == UpTo(After(s, sep), sep)

\* the hrefs and visible texts an anchor of a catalog page can have
Hrefs ==
    { <<"catalog.html", "?", "dataset=", "argo/gadr/aoml/", "1900", "_", "prof.nc">>,
      <<"catalog.html", "?", "dataset=", "argo/gadr/aoml/", "nodc_", "1900", "_", "prof.nc">>,
      <<"catalog.html", "?", "dataset=", "argo/gadr/aoml/", "1900", "_", "meta.nc">>,
      <<"catalog.html", "#", "prof.nc">>,
      <<"1900", "_", "prof.nc">>,
      << >> }
Texts ==
    { <<"1900", "_", "prof.nc">>,
      <<" ", "nodc_", "1900", "_", "prof.nc", " ">>,
      <<"1900", "_", "meta.nc">>,
      << >> }
Links == [href : Hrefs, text : Texts]
Pages == UNION { [1..n -> Links] : n \in 0..MaxLinks }
\* session.get(catalog_url) + raise_for_status + BeautifulSoup: a page or an
\* exception
Responses == {[ok |-> FALSE]} \cup {[ok |-> TRUE, links |-> p] : p \in Pages}

base_url == "https://www.ncei.noaa.gov/thredds-ocean"
opendap_base == <<base_url, "/dodsC/argo/gadr">>

\* faulty variant: any href is taken for the profile entry
IsProfileCatalogHref_any(href) == TRUE

\* if 'prof.nc' in href and 'catalog.html' in href
IsProfileCatalogHref(href) == Contains(href, "prof.nc") /\ Contains(href, "catalog.html")

\* first loop over the anchors: the first profile catalog link with a
\* dataset= parameter returns; None when the loop ends without a return
RECURSIVE DatasetLinkUrl(_)
DatasetLinkUrl(links) ==
    IF links = << >> THEN None
    ELSE IF IsProfileCatalogHref(Head(links).href) /\ Contains(Head(links).href, "dataset=")
         THEN <<base_url, "/dodsC/">> \o split_1(Head(links).href, "dataset=")
         ELSE DatasetLinkUrl(Tail(links))

\* second loop: the first anchor whose stripped text ends with 'prof.nc'
RECURSIVE TextLinkUrl(_, _, _)
TextLinkUrl(links, data_center, float_id) ==
    IF links = << >> THEN None
    ELSE IF EndsWith(strip(Head(links).text), "prof.nc")
         THEN opendap_base \o <<"/", data_center, "/", float_id, "/">>
                           \o strip(Head(links).text)
         ELSE TextLinkUrl(Tail(links), data_center, float_id)

\* return f"{opendap_base}/{data_center}/{float_id}/{float_id}_prof.nc"
StandardUrl(data_center, float_id) ==
    opendap_base \o <<"/", data_center, "/", float_id, "/", float_id, "_", "prof.nc">>

get_opendap_url(response, data_center, float_id) ==
    IF ~response.ok THEN StandardUrl(data_center, float_id)
    ELSE IF DatasetLinkUrl(response.links) # None THEN DatasetLinkUrl(response.links)
    ELSE IF TextLinkUrl(response.links, data_center, float_id) # None
         THEN TextLinkUrl(response.links, data_center, float_id)
    ELSE StandardUrl(data_center, float_id)

\* no pipeline run is going on
PipelineIdle == PipelineInit /\ ~save_parquet

InitUrl ==
    /\ PipelineIdle
    /\ call \in [fn : {"get_opendap_url"}, response : Responses,
                 data_center : {"aoml"}, float_id : {"1900"},
                 done : {FALSE}, ret : {None}]

CallUrl ==
    /\ call.fn = "get_opendap_url"
    /\ ~call.done
    /\ call' = [call EXCEPT !.done = TRUE,
                    !.ret = get_opendap_url(call.response, call.data_center, call.float_id)]
    /\ UNCHANGED pipeline_vars

NextUrl == CallUrl
SpecUrl == InitUrl /\ [][NextUrl]_vars

\* ====================================================== list_floats alone
\* Row texts are sequences of characters.
Digits == {"0", "1", "2", "9"}
\* str.isdigit(): not empty and every character a digit
isdigit(s) == s # << >> /\ \A k \in 1..Len(s) : s[k] \in Digits

\* str.strip('/')
RECURSIVE lstrip_slash(_)
lstrip_slash(s) == IF s # << >> /\ Head(s) = "/" THEN lstrip_slash(Tail(s)) ELSE s
RECURSIVE rstrip_slash(_)
rstrip_slash(s) ==
    IF s # << >> /\ s[Len(s)] = "/"
    THEN rstrip_slash(SubSeq(s, 1, Len(s) - 1)) ELSE s
strip_slash(s) == rstrip_slash(lstrip_slash(s))

\* character order and Python's string comparison
CharOrd(c) ==
    CASE c = " " -> 0 [] c = "/" -> 1 [] c = "0" -> 2 [] c = "1" -> 3
      [] c = "2" -> 4 [] c = "9" -> 5 [] OTHER -> 6
RECURSIVE str_le(_, _)
str_le(a, b) ==
    IF a = << >> THEN TRUE
    ELSE IF b = << >> THEN FALSE
    ELSE IF Head(a) = Head(b) THEN str_le(Tail(a), Tail(b))
    ELSE CharOrd(Head(a)) < CharOrd(Head(b))

\* sorted(floats)
RECURSIVE insert_sorted(_, _)
insert_sorted(x, s) ==
    IF s = << >> THEN <<x>>
    ELSE IF str_le(x, Head(s)) THEN <<x>> \o s
    ELSE <<Head(s)>> \o insert_sorted(x, Tail(s))
RECURSIVE sorted(_)
sorted(s) == IF s = << >> THEN << >> ELSE insert_sorted(Head(s), sorted(Tail(s)))

\* the rows of a catalog page: the img's alt and the text of the row's link
RowTexts ==
    { <<"1", "/">>, <<"2", "/">>, <<" ", "1", "0", "/", " ">>, <<"9">>,
      <<"a", "/">>, <<"/">> }
Rows == [alt : {"[DIR]", "Folder", "[TXT]"}, text : RowTexts]
Listings == UNION { [1..n -> Rows] : n \in 0..MaxRows }
ListResponses == {[ok |-> FALSE]} \cup {[ok |-> TRUE, rows |-> p] : p \in Listings}
\* max_floats: Optional[int]
MaxFloatsArgs == {[given |-> FALSE]} \cup {[given |-> TRUE, value |-> n] : n \in 0..MaxCount}

\* `if max_floats and ...`: None and 0 are both false
Truthy(max_floats) == max_floats.given /\ max_floats.value # 0

\* the for loop over the rows, with its break
RECURSIVE list_floats_loop(_, _, _)
list_floats_loop(rows, floats_acc, max_floats) ==
    IF rows = << >> THEN floats_acc
    ELSE LET float_id == strip_slash(strip(Head(rows).text))
         IN  IF Head(rows).alt \in {"[DIR]", "Folder"} /\ isdigit(float_id)
             THEN IF Truthy(max_floats) /\ Len(floats_acc) + 1 >= max_floats.value
                  THEN Append(floats_acc, float_id)
                  ELSE list_floats_loop(Tail(rows), Append(floats_acc, float_id), max_floats)
             ELSE list_floats_loop(Tail(rows), floats_acc, max_floats)

list_floats(response, max_floats) ==
    IF ~response.ok THEN << >>
    ELSE sorted(list_floats_loop(response.rows, << >>, max_floats))

InitList ==
    /\ PipelineIdle
    /\ call \in [fn : {"list_floats"}, response : ListResponses,
                 max_floats : MaxFloatsArgs, done : {FALSE}, ret : {None}]

CallList ==
    /\ call.fn = "list_floats"
    /\ ~call.done
    /\ call' = [call EXCEPT !.done = TRUE,
                    !.ret = list_floats(call.response, call.max_floats)]
    /\ UNCHANGED pipeline_vars

NextList == CallList
SpecList == InitList /\ [][NextList]_vars

\* ============================================ ArgoStreamProcessor, by cell
\* Values of dataset cells and of row fields.  A finite number is m * 10^e.
F(m, e) == [t |-> "float", m |-> m, e |-> e]    \* np.floating / float, finite
NaN == [t |-> "nan"]                            \* floating NaN
Inf(neg) == [t |-> "inf", neg |-> neg]          \* floating +inf / -inf
I(m, e) == [t |-> "int", m |-> m, e |-> e]      \* np.integer / int
Bytes(s) == [t |-> "bytes", s |-> s]            \* bytes, before decoding
Str(s) == [t |-> "str", s |-> s]
NoneVal == [t |-> "None"]

Abs(n) == IF n < 0 THEN -n ELSE n
Max(a, b) == IF a >= b THEN a ELSE b
RECURSIVE NDigits(_)
NDigits(n) == IF n < 10 THEN 1 ELSE 1 + NDigits(n \div 10)
RECURSIVE Pow10(_)
Pow10(k) == IF k = 0 THEN 1 ELSE 10 * Pow10(k - 1)
\* ma * 10^ea > mb * 10^eb, for ma >= 0 and mb > 0
dec_gt(ma, ea, mb, eb) ==
    IF ma = 0 THEN FALSE
    ELSE IF NDigits(ma) + ea # NDigits(mb) + eb THEN NDigits(ma) + ea > NDigits(mb) + eb
    ELSE LET D == Max(NDigits(ma), NDigits(mb))
         IN  ma * Pow10(D - NDigits(ma)) > mb * Pow10(D - NDigits(mb))

\* isinstance(value, (np.floating, float))
IsFloating(v) == v.t \in {"float", "nan", "inf"}
\* np.isnan(value), for a numeric value
isnan(v) == v.t = "nan"
\* faulty variant: the threshold is 1e4, so that 99999.9 counts as a sentinel
AbsGt1e10_low(v) ==
    IF v.t = "inf" THEN TRUE
    ELSE IF v.t = "nan" THEN FALSE
    ELSE dec_gt(Abs(v.m), v.e, 1, 4)

\* abs(value) > 1e10
AbsGt1e10(v) ==
    IF v.t = "inf" THEN TRUE
    ELSE IF v.t = "nan" THEN FALSE
    ELSE dec_gt(Abs(v.m), v.e, 1, 10)

\* isinstance(value, (np.floating, float)) and (np.isnan(value) or abs(value) > 1e10)
IsSentinel(value) == IsFloating(value) /\ (isnan(value) \/ AbsGt1e10(value))

\* A dataset: sizes maps the dimensions it has to their lengths, variables
\* maps the variables it has to arrays, an array maps index tuples to values.
\* _get_value: an index outside the array raises inside the try
get_value(ds, var_name, index) ==
    IF var_name \notin DOMAIN ds.variables THEN NoneVal
    ELSE IF index \notin DOMAIN ds.variables[var_name] THEN NoneVal
    ELSE LET raw == ds.variables[var_name][index]
             value == IF raw.t = "bytes" THEN Str(strip(raw.s)) ELSE raw
         IN  IF IsSentinel(value) THEN NoneVal ELSE value

\* ds.sizes.get(name, default)
sizes_get(ds, name, default) ==
    IF name \in DOMAIN ds.sizes THEN ds.sizes[name] ELSE default

\* what a call returns: a frame (sequence of rows) or an exception
Returned(rows) == [raised |-> FALSE, df |-> rows]
Raised(exc) == [raised |-> TRUE, exc |-> exc]

\* pd.Timedelta(days=...) holds less than 106752 days; pd.Timestamp starts
\* less than 99447 days before 1950-01-01
TimedeltaDaysLimit == 106752
TimestampDaysBefore1950 == 99447

\* reference_date + pd.Timedelta(days=float(juld)) in a try: None when the
\* sum is outside what Timedelta / Timestamp hold
to_datetime(juld) ==
    IF \/ juld.m >= 0 /\ dec_gt(TimedeltaDaysLimit, 0, juld.m, juld.e)
       \/ juld.m = 0
       \/ juld.m < 0 /\ dec_gt(TimestampDaysBefore1950, 0, -juld.m, juld.e)
    THEN [t |-> "datetime", epoch |-> "1950-01-01", m |-> juld.m, e |-> juld.e]
    ELSE NoneVal

\* extract_profiles, by cell: one row per index of range(n_prof); np.isnan of
\* a text value raises TypeError
extract_profiles_rows(ds, float_id, data_center) ==
    LET n_prof == sizes_get(ds, "N_PROF", 1)
        profile(i) ==
            LET juld == get_value(ds, "JULD", <<i>>)
            IN  [float_id |-> float_id,
                 data_center |-> data_center,
                 profile_id |-> i,
                 cycle_number |-> get_value(ds, "CYCLE_NUMBER", <<i>>),
                 platform_number |-> get_value(ds, "PLATFORM_NUMBER", <<i>>),
                 latitude |-> get_value(ds, "LATITUDE", <<i>>),
                 longitude |-> get_value(ds, "LONGITUDE", <<i>>),
                 juld |-> juld,
                 datetime |-> IF juld # NoneVal /\ juld.t # "str" /\ ~isnan(juld)
                              THEN to_datetime(juld) ELSE NoneVal]
    IN  IF \E i \in 0..(n_prof - 1) : get_value(ds, "JULD", <<i>>).t = "str"
        THEN Raised("TypeError")
        ELSE Returned([k \in 1..n_prof |-> profile(k - 1)])

\* pandas isna: None and NaN
isna(v) == v.t \in {"None", "nan"}
\* df.dropna(subset=['pressure', 'temperature', 'salinity'], how='all')
dropna_all(rows) ==
    LET HasData(r) == ~(isna(r.pressure) /\ isna(r.temperature) /\ isna(r.salinity))
    IN  SelectSeq(rows, HasData)

\* faulty variant: rows are kept whatever their pressure
KeepMeasurement_all(meas) == TRUE

\* if meas['pressure'] is not None and not np.isnan(meas['pressure'])
KeepMeasurement(meas) == meas.pressure # NoneVal /\ ~isnan(meas.pressure)

\* extract_measurements, by cell: profile-major loop over range(n_prof) x
\* range(n_levels); np.isnan of a text pressure raises TypeError
extract_measurements_rows(ds, float_id) ==
    LET n_prof == sizes_get(ds, "N_PROF", 1)
        n_levels == sizes_get(ds, "N_LEVELS", 0)
        meas(prof_idx, level_idx) ==
            [float_id |-> float_id,
             profile_id |-> prof_idx,
             level |-> level_idx,
             pressure |-> get_value(ds, "PRES", <<prof_idx, level_idx>>),
             temperature |-> get_value(ds, "TEMP", <<prof_idx, level_idx>>),
             salinity |-> get_value(ds, "PSAL", <<prof_idx, level_idx>>)]
        all == [k \in 1..(n_prof * n_levels) |->
                    meas((k - 1) \div n_levels, (k - 1) % n_levels)]
    IN  IF \E k \in 1..Len(all) : all[k].pressure.t = "str"
        THEN Raised("TypeError")
        ELSE Returned(dropna_all(SelectSeq(all, KeepMeasurement)))

\* ------------------------------------------ datasets given cell by cell
Absent == [t |-> "absent"]
\* a dimension's length, or -1 for a dataset without the dimension
NoDim == -1
ProfDims == {NoDim} \cup 0..XProf
LevelDims == {NoDim} \cup 0..XLevels

\* the index tuples of a variable over the dimensions the dataset has
ProfIndex(nprof) == IF nprof = NoDim THEN {} ELSE {<<i>> : i \in 0..(nprof - 1)}
CellIndex(nprof, nlev) ==
    IF nprof # NoDim /\ nlev # NoDim
    THEN {<<i, j>> : i \in 0..(nprof - 1), j \in 0..(nlev - 1)}
    ELSE IF nlev # NoDim THEN {<<j>> : j \in 0..(nlev - 1)}
    ELSE ProfIndex(nprof)
Cells(nprof, nlev) == IF nprof > 0 /\ nlev > 0 THEN nprof * nlev ELSE 0

SizesOf(nprof, nlev) ==
    [n \in (IF nprof = NoDim THEN {} ELSE {"N_PROF"}) \cup
           (IF nlev = NoDim THEN {} ELSE {"N_LEVELS"}) |->
        IF n = "N_PROF" THEN nprof ELSE nlev]

PresValues == {F(153, -1), NaN, F(1, 12), Inf(TRUE), I(2, 3), Bytes(<<"x">>)}
FillValues == {Absent, F(153, -1), NaN}

\* a dataset for extract_measurements: PRES holds `base` in every cell but
\* cell number `odd` (profile-major, 0 for none), which holds `oddv`; TEMP and
\* PSAL hold one value in every cell; a variable given as Absent is missing
MeasurementInputs ==
    { p \in [nprof : ProfDims, nlev : LevelDims,
             base : {Absent, F(153, -1), NaN, I(2, 3)},
             odd : 0..(XProf * XLevels), oddv : PresValues,
             temp : FillValues, psal : FillValues] :
        /\ p.odd <= Cells(p.nprof, p.nlev)
        /\ (p.base = Absent => p.odd = 0)
        /\ (p.odd = 0 => p.oddv = F(153, -1)) }

MeasurementDataset(p) ==
    LET idx == CellIndex(p.nprof, p.nlev)
        present == (IF p.base = Absent THEN {} ELSE {"PRES"}) \cup
                   (IF p.temp = Absent THEN {} ELSE {"TEMP"}) \cup
                   (IF p.psal = Absent THEN {} ELSE {"PSAL"})
    IN  [sizes |-> SizesOf(p.nprof, p.nlev),
         variables |->
            [v \in present |->
                [x \in idx |->
                    IF v = "TEMP" THEN p.temp
                    ELSE IF v = "PSAL" THEN p.psal
                    ELSE IF Len(x) = 2 /\ x[1] * p.nlev + x[2] + 1 = p.odd THEN p.oddv
                    ELSE p.base]]]

\* a dataset for extract_profiles: JULD (a number, or text in a malformed
\* file) and LATITUDE hold one value in every profile, the other profile
\* variables are ordinary
ProfileInputs ==
    [nprof : ProfDims,
     juld : {Absent, F(1, 2), F(-365, 0), NaN, F(1, 12), F(1, 9), I(1, 2),
             Bytes(<<"x">>)},
     lat : {Absent, F(153, -1), F(999999, -1), NaN}]

ProfileDataset(p) ==
    LET idx == ProfIndex(p.nprof)
        present == {"CYCLE_NUMBER", "PLATFORM_NUMBER", "LONGITUDE"} \cup
                   (IF p.juld = Absent THEN {} ELSE {"JULD"}) \cup
                   (IF p.lat = Absent THEN {} ELSE {"LATITUDE"})
    IN  [sizes |-> SizesOf(p.nprof, NoDim),
         variables |->
            [v \in present |->
                [x \in idx |->
                    CASE v = "JULD" -> p.juld
                      [] v = "LATITUDE" -> p.lat
                      [] v = "LONGITUDE" -> F(-7025, -2)
                      [] v = "CYCLE_NUMBER" -> I(x[1] + 1, 0)
                      [] v = "PLATFORM_NUMBER" -> Bytes(<<"1900", " ">>)]]]

InitExtract ==
    /\ PipelineIdle
    /\ call \in [fn : {"extract_measurements"}, input : MeasurementInputs,
                 done : {FALSE}, ret : {None}]
            \cup [fn : {"extract_profiles"}, input : ProfileInputs,
                  done : {FALSE}, ret : {None}]

CallExtractProfiles ==
    /\ call.fn = "extract_profiles"
    /\ ~call.done
    /\ call' = [call EXCEPT !.done = TRUE,
                    !.ret = extract_profiles_rows(ProfileDataset(call.input), "1900", "aoml")]
    /\ UNCHANGED pipeline_vars

CallExtractMeasurements ==
    /\ call.fn = "extract_measurements"
    /\ ~call.done
    /\ call' = [call EXCEPT !.done = TRUE,
                    !.ret = extract_measurements_rows(MeasurementDataset(call.input), "1900")]
    /\ UNCHANGED pipeline_vars

NextExtract == CallExtractProfiles \/ CallExtractMeasurements
SpecExtract == InitExtract /\ [][NextExtract]_vars

\* -------------------------------------------------------- _get_value alone
StoredValues ==
    { F(153, -1), F(0, 0), F(999999, -1), F(1, 10), F(100001, 5), F(1, 12),
      F(-1, 12), F(-153, -1), NaN, Inf(FALSE), Inf(TRUE),
      I(5, 0), I(99999, 0), I(1, 12), I(-1, 12), Bytes(<<" ", "1900", " ">>) }

\* a dataset with at most one variable, "PRES", whose array has the one cell
\* `cell`; the call reads var_name at `index`
ValueInputs ==
    [var_name : {"PRES", "TEMP"}, cell : {<<0>>, <<0, 0>>},
     stored : StoredValues, index : {<<0>>, <<1>>, <<0, 0>>}]

ValueDataset(p) ==
    [sizes |-> SizesOf(1, IF Len(p.cell) = 2 THEN 1 ELSE NoDim),
     variables |-> [v \in {"PRES"} |-> [x \in {p.cell} |-> p.stored]]]

InitValue ==
    /\ PipelineIdle
    /\ call \in [fn : {"_get_value"}, input : ValueInputs, done : {FALSE}, ret : {None}]

CallValue ==
    /\ call.fn = "_get_value"
    /\ ~call.done
    /\ call' = [call EXCEPT !.done = TRUE,
                    !.ret = get_value(ValueDataset(call.input), call.input.var_name,
                                      call.input.index)]
    /\ UNCHANGED pipeline_vars

NextValue == CallValue
SpecValue == InitValue /\ [][NextValue]_vars

\* ------------------------------------------- query_database (agent tools)
\* SQL text as a sequence of tokens: keywords, a table or column name, the
\* statement separator and a blank
SqlTokens == {"SELECT", "select", "DELETE", "t", "argo_float_data", ";", " "}
SqlTexts == UNION { [1..n -> SqlTokens] : n \in 0..MaxSql }
Tools == {"server", "app", "app_ollama"}
\* the rows of the relational store, and the store after a DELETE
StoreRows == <<"row">>

\* str.upper()
upper(s) ==
    [k \in 1..Len(s) |->
        CASE s[k] = "select" -> "SELECT"
          [] s[k] = "t" -> "T"
          [] s[k] = "argo_float_data" -> "ARGO_FLOAT_DATA"
          [] OTHER -> s[k]]
startswith(s, t) == Len(s) > 0 /\ Head(s) = t

NonBlank(s) == SelectSeq(s, LAMBDA c : c # " ")

\* what pd.read_sql(sql, conn) does on the SQLite engine: sqlite3 executes one
\* statement per call and raises when anything but blanks follows the first
\* `;`; a SELECT returns rows, a DELETE empties the table (and read_sql then
\* raises, the cursor having no rows); anything malformed raises
sqlite_read_sql(sql, store) ==
    LET stmt == NonBlank(UpTo(sql, ";"))
        tail == NonBlank(After(sql, ";"))
        wellformed == Len(stmt) = 2 /\ stmt[2] = "t"
    IN  IF tail # << >> \/ ~wellformed THEN [value |-> "error", store |-> store]
        ELSE IF upper(stmt)[1] = "SELECT" THEN [value |-> "rows", store |-> store]
        ELSE IF stmt[1] = "DELETE" THEN [value |-> "error", store |-> << >>]
        ELSE [value |-> "error", store |-> store]

\* query_database: strip, the SELECT prefix test, in app_ollama the test for
\* the table name argo_float_data, then pd.read_sql; every exception becomes
\* an error value
query_database(tool, sql, store) ==
    LET s == strip(sql) IN
    IF ~startswith(upper(s), "SELECT")
    THEN [value |-> "error", passed |-> FALSE, store |-> store]
    ELSE IF tool = "app_ollama" /\ Contains(s, "argo_float_data")
    THEN [value |-> "error", passed |-> FALSE, store |-> store]
    ELSE LET r == sqlite_read_sql(s, store)
         IN  [value |-> r.value, passed |-> TRUE, store |-> r.store]

InitQuery ==
    /\ PipelineIdle
    /\ call \in [fn : {"query_database"}, tool : Tools, sql : SqlTexts,
                 store : {StoreRows}, done : {FALSE}, ret : {None}]

CallQuery ==
    /\ call.fn = "query_database"
    /\ ~call.done
    /\ call' = [call EXCEPT !.done = TRUE,
                    !.ret = query_database(call.tool, call.sql, call.store)]
    /\ UNCHANGED pipeline_vars

NextQuery == CallQuery
SpecQuery == InitQuery /\ [][NextQuery]_vars

\* ------------------------------------------------------------ properties
IsPrefix(a, b) == Len(a) <= Len(b) /\ SubSeq(b, 1, Len(a)) = a
IsData(m) == m.type = "DATA"
\* the positions of the DATA messages waiting in the queue, in queue order
QueueData ==
    LET q == SelectSeq(write_queue, IsData) IN [k \in 1..Len(q) |-> q[k].dataset]
EndOfRun == pc \in {"done", "raised"}
RowsOf(table, u) == {k \in 1..Len(db[table]) : db[table][k].float_id = u}

\* C1: at most one stream_to_sql / stream_to_parquet call is in progress at
\* any time, the thread inside it is the db_writer, and every step that
\* changes the rows of the relational store or the snapshot files is a step of
\* the db_writer, taken while it is inside such a call: no fetch worker step
\* changes storage.
C1_Exclusion ==
    /\ Cardinality(in_write) <= 1
    /\ in_write \subseteq {writer}
    /\ (in_write # {} => wpc \in {"stream_to_sql", "stream_to_parquet", "finish"})
C1_SingleWriter ==
    /\ []C1_Exclusion
    /\ [][(db.profiles' # db.profiles \/ db.measurements' # db.measurements
            \/ parquet' # parquet)
          => (in_write = {writer} /\ wk' = wk /\ pc' = pc)]_vars
\* the writer is inside a write while a fetch worker is still running
C1_Witness ==
    /\ in_write = {writer}
    /\ \E i \in DOMAIN wk : wk[i].pc \notin {"queued", "done"}
    /\ Len(db.profiles) > 0

\* C2: the units the writer has called stream_to_sql for are always the first
\* DATA messages put, in put order, each once; the messages put are exactly
\* those written followed by those still queued; when the writer has exited
\* the two sequences are equal, and there are at most K of them.
C2_ArrivalOrder ==
    /\ IsPrefix(written, enqueued)
    /\ enqueued = written \o QueueData
    /\ \A j, k \in 1..Len(written) : written[j] = written[k] => j = k
    /\ Len(written) <= Len(floats)
    /\ (wpc = "done" => written = enqueued)
\* two units written, the later-dispatched one first
C2_Witness ==
    /\ wpc = "done"
    /\ written = <<2, 1>>
    /\ enqueued = <<2, 1>>

\* C4: at most one DONE is ever put; it is put only when every fetch worker
\* has returned and is then the last message of the queue; no DATA message is
\* put once it is in; and the orchestrator is past the join (INDEX, DONE) only
\* when exactly one DONE was put, the writer has consumed it and has exited.
C4_State ==
    /\ sentinels <= 1
    /\ (sentinels = 1 => \A i \in DOMAIN wk : wk[i].pc = "done")
    /\ (pc \in {"start_writer", "submit", "wait"} => sentinels = 0)
    /\ \A k \in 1..Len(write_queue) :
            write_queue[k].type = "DONE" => k = Len(write_queue)
    /\ (pc \in {"index", "report", "done", "raised"} =>
            /\ sentinels = 1
            /\ write_queue = << >>
            /\ ~active
            /\ wpc = "done")
C4_OneSentinelLast ==
    /\ []C4_State
    /\ [][enqueued' # enqueued => sentinels = 0 /\ sentinels' = 0]_vars
\* a finished run in which two DATA messages preceded the sentinel
C4_Witness ==
    /\ pc = "done"
    /\ sentinels = 1
    /\ Len(enqueued) = 2

\* C5: the writer has exited only if the DONE message was put and nothing is
\* left in the queue (so it was dequeued); every step that takes the writer
\* out of its loop starts in such a state, whatever timeouts and write errors
\* came before.
C5_State ==
    wpc = "done" => (sentinels = 1 /\ write_queue = << >> /\ ~active)
C5_ExitsOnlyOnSentinel ==
    /\ []C5_State
    /\ [][wpc' = "done" /\ wpc # "done" =>
            (sentinels = 1 /\ write_queue = << >> /\ ~active)]_vars
\* the writer exited after a write error on one of two units
C5_Witness ==
    /\ wpc = "done"
    /\ Len(written) = 2
    /\ \E i \in DOMAIN wk : <<"unit", i>> \in io_errors

\* every dataset fetched has data variables and at least one profile
OrdinaryData ==
    \A i \in Pos :
        datasets[i].state # "none" =>
            datasets[i].content.data_vars /\ datasets[i].content.N_PROF >= 1

\* C3: when the run ends and no storage call raised an I/O error, the summary
\* is (K - |F|) of K, F being the units whose two fetch tiers both failed;
\* the profiles table holds rows of every unit fetched outside F, and no row
\* of a unit id all of whose fetches are in F.  (Stated for runs in which
\* every fetched dataset has data variables and at least one profile.)
C3_ReportAndRows ==
    (EndOfRun /\ io_errors = {} /\ OrdinaryData) =>
        /\ report = <<Len(floats) - Cardinality(failed_fetch), Len(floats)>>
        /\ \A i \in Pos :
            i \notin failed_fetch => RowsOf("profiles", floats[i]) # {}
        /\ \A u \in Units :
            (\A i \in Pos : floats[i] = u => i \in failed_fetch) =>
                RowsOf("profiles", u) = {} /\ RowsOf("measurements", u) = {}

\* C6: once discovery has returned at least one unit the run reaches DONE
\* (or index creation met an I/O error, which the claim assumes away).
C6_ReachesDone ==
    (Len(floats) > 0) ~> (pc = "done" \/ <<"index", 0>> \in io_errors)

\* C7: no exception escapes stream_multiple_floats.
C7_NeverRaises == pc # "raised"

\* C8: when the write of a unit raised (and index creation met no I/O error),
\* the run ends with its summary, the unit is not counted, and every message
\* put was handled by the writer.  (Stated for runs in which every fetched
\* dataset has data variables and at least one profile.)
C8_WriteErrorIsLocal ==
    (EndOfRun /\ <<"index", 0>> \notin io_errors /\ OrdinaryData
        /\ \E i \in Pos : <<"unit", i>> \in io_errors) =>
        /\ pc = "done"
        /\ report # None
        /\ written = enqueued
        /\ success_count <= Len(written)
                - Cardinality({i \in Pos : <<"unit", i>> \in io_errors})

\* C9: when the run ends, every unit the writer handled has either both its
\* non-empty row sets in the relational store or neither.
C9_NoHalfWrittenUnit ==
    EndOfRun =>
        \A i \in Pos :
            LET ds == datasets[i].content
                need == (IF extract_profiles(ds, floats[i]) # << >>
                            THEN {"profiles"} ELSE {}) \cup
                        (IF extract_measurements(ds, floats[i]) # << >>
                            THEN {"measurements"} ELSE {})
                got == wrote[i] \cap {"profiles", "measurements"}
            IN  datasets[i].state # "none" => (got = {} \/ got = need)

\* C10: when the writer has exited, the dataset of every message it dequeued
\* is closed.
C10_DequeuedDatasetsClosed ==
    wpc = "done" =>
        \A k \in 1..Len(written) : datasets[written[k]].state = "closed"

InSeq(x, s) == \E k \in 1..Len(s) : s[k] = x

C12_State ==
    /\ DOMAIN wk \subseteq Pos
    /\ \A k, l \in 1..Len(enqueued) : enqueued[k] = enqueued[l] => k = l
    /\ \A k \in 1..Len(enqueued) : enqueued[k] \in DOMAIN wk
    /\ \A i \in DOMAIN wk :
        /\ (InSeq(i, enqueued) <=> wk[i].pc \in {"cleanup", "done"} /\ datasets[i] # NoDs
                                     /\ datasets[i].content.data_vars /\ i \notin failed_fetch)
        /\ (i \in failed_fetch => wk[i].pc = "done" /\ ~InSeq(i, enqueued))
        /\ (wk[i].pc # "done" => ENABLED Worker(i))

\* C12: each discovered unit (list position) is handled by one fetch_worker
\* invocation that enqueues at most one DATA message; a unit whose fetch failed
\* has enqueued nothing and is never started again, and whatever happened to
\* the other units, a worker that has not returned can still take its next step.
C12_OneInvocationPerUnit ==
    /\ []C12_State
    /\ [][\A i \in DOMAIN wk :
            /\ i \in DOMAIN wk'
            /\ (wk[i].pc # "queued" => wk'[i].pc # "queued")
            /\ (wk[i].pc = "done" => wk'[i] = wk[i])]_vars

\* one unit's fetch failed in both tiers and a later unit of the list was enqueued
C12_Witness ==
    \E i, j \in DOMAIN wk :
        /\ i \in failed_fetch
        /\ i < j
        /\ InSeq(j, enqueued)
        /\ wk[i].pc = "done"

\* C13: create_indexes is invoked exactly once in a run that counted at least
\* one unit and not at all otherwise, and only after the writer has exited.
C13_IndexOnceAfterWriter ==
    /\ index_calls \in {0, 1}
    /\ (index_calls = 1 => success_count > 0 /\ wpc = "done" /\ in_write = {}
                           /\ pc \in {"report", "done", "raised"})
    /\ (pc \in {"report", "done", "raised"} => (index_calls = 1 <=> success_count > 0))
    /\ (pc = "aborted" => index_calls = 0)

\* a run that counted a unit has built its indexes and logged its summary
C13_Witness ==
    /\ pc = "done"
    /\ index_calls = 1
    /\ db.indexes
    /\ success_count > 0

\* C14: when discovery returns an empty list the run aborts at once: no writer
\* is started, no worker dispatched, nothing enqueued, no row or snapshot
\* written, no index built, no summary logged.
C14_EmptyDiscoveryAborts ==
    (pc # "discover" /\ floats = << >>) =>
        /\ pc = "aborted"
        /\ wpc = "idle" /\ ~active /\ item = NoItem
        /\ wk = << >> /\ datasets = << >>
        /\ write_queue = << >> /\ enqueued = << >> /\ sentinels = 0
        /\ written = << >> /\ in_write = {} /\ success_count = 0
        /\ db = [profiles |-> << >>, measurements |-> << >>, indexes |-> FALSE]
        /\ parquet = {} /\ files = {}
        /\ index_calls = 0 /\ io_errors = {}
        /\ report = None

\* discovery returned nothing and the run has returned
C14_Witness == pc = "aborted" /\ floats = << >>

\* fetch_float_data is running its download tier for position i
InDownloadTier(i) ==
    wk[i].where = "client" /\ wk[i].pc \in {"dl_get", "dl_body", "open_local"}
\* fetch_float_data has returned (ds, None) from the streaming tier
StreamedOutcome(i) ==
    /\ wk[i].local_file = None
    /\ datasets[i] # NoDs /\ datasets[i].state = "open" /\ ~datasets[i].loaded
\* fetch_float_data has returned (ds, local_file) from the download tier
DownloadedOutcome(i) ==
    /\ wk[i].local_file = local_filename(floats[i])
    /\ datasets[i] # NoDs /\ datasets[i].state = "closed" /\ datasets[i].loaded

C15_State ==
    \A i \in DOMAIN wk : wk[i].where = "client" =>
        /\ (InDownloadTier(i) => datasets[i] = NoDs)
        /\ (wk[i].pc = "check" => StreamedOutcome(i) \/ DownloadedOutcome(i))
        /\ (wk[i].pc = "check" => ~(StreamedOutcome(i) /\ DownloadedOutcome(i)))
        /\ (i \in failed_fetch => wk[i].pc = "done" /\ datasets[i] = NoDs)

\* C15: fetch_float_data never raises and returns (dataset, no file) when the
\* streaming tier succeeds, (dataset, temp file) when streaming failed and the
\* download tier succeeded, (none, none) when both failed; the download tier
\* is entered if and only if the streaming tier failed.
C15_ThreeOutcomes ==
    /\ []C15_State
    /\ [][\A i \in DOMAIN wk :
            (wk[i].where = "client" /\ wk'[i] # wk[i]) =>
                /\ wk[i].pc = "queued" =>
                        \/ wk'[i].pc = "check" /\ datasets'[i] # NoDs
                              /\ wk'[i].local_file = None
                        \/ wk'[i].pc = "dl_get" /\ datasets'[i] = NoDs
                              /\ wk'[i].where = "client"
                /\ InDownloadTier(i) =>
                        \/ wk'[i].where = "client"
                              /\ wk'[i].pc \in {"dl_body", "open_local"}
                              /\ datasets'[i] = NoDs
                        \/ wk'[i].pc = "check" /\ datasets'[i] # NoDs
                              /\ datasets'[i].loaded
                              /\ wk'[i].local_file = local_filename(floats[i])
                        \/ wk'[i].pc = "done" /\ datasets'[i] = NoDs
                              /\ i \in failed_fetch' /\ ~InSeq(i, enqueued')]_vars

\* streaming failed and the download tier returned a loaded dataset with its
\* temporary file
C15_Witness ==
    \E i \in DOMAIN wk :
        /\ wk[i].where = "client"
        /\ wk[i].pc = "check"
        /\ DownloadedOutcome(i)
        /\ wk[i].local_file \in files

\* anchors of the returned call's page, by the claim's and the code's tests
UrlLinks == IF call.response.ok THEN call.response.links ELSE << >>
HasDatasetParam(l) == Contains(l.href, "dataset=")
HasProfileText(l) == EndsWith(strip(l.text), "prof.nc")
IsProfileDatasetLink(l) ==
    /\ Contains(l.href, "prof.nc") /\ Contains(l.href, "catalog.html")
    /\ Contains(l.href, "dataset=")
FirstIndex(links, T(_)) ==
    CHOOSE k \in 1..Len(links) : T(links[k]) /\ \A j \in 1..(k - 1) : ~T(links[j])
UrlReturned == call.fn = "get_opendap_url" /\ call.done

\* C16 (as stated): (a) if any link carries a dataset= parameter the result is
\* the URL built from such a link's dataset path; else (b) if any link's text
\* ends with prof.nc, the URL built from center/unit/that text; else, or when
\* the page fetch fails, (c) the standard URL.
C16_AnyDatasetParam ==
    UrlReturned =>
        IF \E k \in 1..Len(UrlLinks) : HasDatasetParam(UrlLinks[k])
        THEN \E k \in 1..Len(UrlLinks) :
                /\ HasDatasetParam(UrlLinks[k])
                /\ call.ret = <<base_url, "/dodsC/">> \o split_1(UrlLinks[k].href, "dataset=")
        ELSE IF \E k \in 1..Len(UrlLinks) : HasProfileText(UrlLinks[k])
        THEN call.ret = opendap_base \o <<"/", call.data_center, "/", call.float_id, "/">>
                            \o strip(UrlLinks[FirstIndex(UrlLinks, HasProfileText)].text)
        ELSE call.ret = StandardUrl(call.data_center, call.float_id)

\* C16 (amended): a URL is always returned; (a) applies only to links whose
\* href contains 'prof.nc', 'catalog.html' and 'dataset=' (the first such link
\* gives the path); a dataset= link of another file is skipped and (b) or (c)
\* decide.
C16_ProfileDatasetParam ==
    UrlReturned =>
        /\ call.ret # None
        /\ IF \E k \in 1..Len(UrlLinks) : IsProfileDatasetLink(UrlLinks[k])
           THEN call.ret = <<base_url, "/dodsC/">> \o
                    split_1(UrlLinks[FirstIndex(UrlLinks, IsProfileDatasetLink)].href, "dataset=")
           ELSE IF \E k \in 1..Len(UrlLinks) : HasProfileText(UrlLinks[k])
           THEN call.ret = opendap_base \o <<"/", call.data_center, "/", call.float_id, "/">>
                            \o strip(UrlLinks[FirstIndex(UrlLinks, HasProfileText)].text)
           ELSE call.ret = StandardUrl(call.data_center, call.float_id)

\* the page lists a profile-text link before a profile dataset link, and a
\* dataset link of another file: the profile dataset link decided
C16_Witness ==
    /\ UrlReturned
    /\ Len(UrlLinks) = 2
    /\ HasProfileText(UrlLinks[1]) /\ ~HasDatasetParam(UrlLinks[1])
    /\ IsProfileDatasetLink(UrlLinks[2])
    /\ call.ret = <<base_url, "/dodsC/", "argo/gadr/aoml/", "nodc_", "1900", "_", "prof.nc">>

\* the numeric directory entries of the returned call's page, in listing order
RECURSIVE NumericEntries(_)
NumericEntries(rows) ==
    IF rows = << >> THEN << >>
    ELSE (IF Head(rows).alt \in {"[DIR]", "Folder"}
             /\ isdigit(strip_slash(strip(Head(rows).text)))
          THEN <<strip_slash(strip(Head(rows).text))>> ELSE << >>)
         \o NumericEntries(Tail(rows))
Count(x, s) == Cardinality({k \in 1..Len(s) : s[k] = x})
SameEntries(a, b) ==
    Len(a) = Len(b) /\ \A k \in 1..Len(a) : Count(a[k], a) = Count(a[k], b)
Min(a, b) == IF a <= b THEN a ELSE b
ListReturned == call.fn = "list_floats" /\ call.done

\* C17: list_floats returns only all-digit ids; whenever max_floats is supplied
\* (0 included) it returns at most max_floats ids, namely the first max_floats
\* numeric directory entries of the listing; after a network or parse failure
\* it returns the empty list.
C17_DigitsAndAtMostMax ==
    ListReturned =>
        /\ \A k \in 1..Len(call.ret) : isdigit(call.ret[k])
        /\ (~call.response.ok => call.ret = << >>)
        /\ (call.response.ok /\ call.max_floats.given) =>
                /\ Len(call.ret) <= call.max_floats.value
                /\ SameEntries(call.ret,
                        SubSeq(NumericEntries(call.response.rows), 1,
                               Min(call.max_floats.value,
                                   Len(NumericEntries(call.response.rows)))))

MeasurementsReturned == call.fn = "extract_measurements" /\ call.done /\ ~call.ret.raised
IsFinite(v) == v.t \in {"float", "int"}

\* C18: every row extract_measurements returns has a pressure that is not
\* null and is finite, so no returned row has pressure, temperature and
\* salinity all null.
C18_PressureValid ==
    MeasurementsReturned =>
        \A k \in 1..Len(call.ret.df) :
            /\ call.ret.df[k].pressure # NoneVal
            /\ IsFinite(call.ret.df[k].pressure)
            /\ ~(isna(call.ret.df[k].pressure) /\ isna(call.ret.df[k].temperature)
                    /\ isna(call.ret.df[k].salinity))

\* a dataset with an infinite pressure in one cell and valid pressures in the
\* others, temperature and salinity missing: the other cells' rows are returned
C18_Witness ==
    /\ MeasurementsReturned
    /\ call.input.oddv = Inf(TRUE)
    /\ call.input.odd = 1
    /\ call.input.temp = Absent /\ call.input.psal = NaN
    /\ Cells(call.input.nprof, call.input.nlev) = 2
    /\ Len(call.ret.df) = 1
    /\ call.ret.df[1].pressure = F(153, -1)

ProfilesReturned == call.fn = "extract_profiles" /\ call.done /\ ~call.ret.raised
\* the claim's P and L for the call's dataset
DimP == IF call.input.nprof = NoDim THEN 1 ELSE call.input.nprof
DimL == IF call.input.nlev = NoDim THEN 0 ELSE call.input.nlev
ValidPressure(v) ==
    \/ v.t = "int"
    \/ v.t = "float" /\ ~dec_gt(Abs(v.m), v.e, 1, 10)
\* the dataset has a pressure variable and each of its cells holds a valid value
EveryLevelValid ==
    LET ds == MeasurementDataset(call.input)
    IN  /\ "PRES" \in DOMAIN ds.variables
        /\ \A x \in DOMAIN ds.variables["PRES"] : ValidPressure(ds.variables["PRES"][x])

\* C19: with P = N_PROF (1 when absent) and L = N_LEVELS (0 when absent),
\* extract_profiles returns exactly P rows with profile_id 0..P-1, and when
\* every level has a valid pressure extract_measurements returns exactly P*L
\* rows, one per (profile index, level index) pair.
C19_RowCounts ==
    /\ (call.fn = "extract_profiles" /\ call.done) =>
            /\ ~call.ret.raised
            /\ Len(call.ret.df) = DimP
            /\ \A k \in 1..Len(call.ret.df) : call.ret.df[k].profile_id = k - 1
    /\ (call.fn = "extract_measurements" /\ call.done /\ EveryLevelValid) =>
            /\ ~call.ret.raised
            /\ Len(call.ret.df) = DimP * DimL
            /\ \A k \in 1..Len(call.ret.df) :
                    /\ call.ret.df[k].profile_id = (k - 1) \div DimL
                    /\ call.ret.df[k].level = (k - 1) % DimL

ValueReturned == call.fn = "_get_value" /\ call.done
IsNumeric(v) == v.t \in {"float", "nan", "inf", "int"}
\* the stored number is not finite or its magnitude exceeds 1e10
IsNumericSentinel(v) ==
    \/ v.t \in {"nan", "inf"}
    \/ v.t \in {"float", "int"} /\ dec_gt(Abs(v.m), v.e, 1, 10)

\* C20: _get_value yields null for a field absent from the dataset; for a
\* stored number of any numeric type it yields null exactly when the number is
\* non-finite or larger than 1e10 in magnitude, and the stored number
\* unchanged otherwise (1e12 gives null, 15.3 gives 15.3).
C20_NullExactlyForSentinels ==
    ValueReturned =>
        /\ (call.input.var_name # "PRES" => call.ret = NoneVal)
        /\ ( /\ call.input.var_name = "PRES"
             /\ call.input.index = call.input.cell
             /\ IsNumeric(call.input.stored) )
           => IF IsNumericSentinel(call.input.stored)
              THEN call.ret = NoneVal
              ELSE call.ret = call.input.stored

\* the call read the one stored cell of the dataset, which holds 99999.9
ReadFillValue ==
    /\ ValueReturned
    /\ call.input.var_name = "PRES"
    /\ call.input.index = call.input.cell
    /\ call.input.stored = F(999999, -1)

\* C21 (as stated): a field whose stored value is 99999.9 is coerced to null.
C21_FillValueNulled == ReadFillValue => call.ret = NoneVal

\* C21 (amended): a stored 99999.9 is not a sentinel for _get_value -- its
\* magnitude is not greater than 1e10 -- and is returned unchanged.
C21_FillValuePasses == ReadFillValue => call.ret = F(999999, -1)

\* _get_value has returned 99999.9 for a stored 99999.9
C21_Witness == ReadFillValue /\ call.ret.t = "float" /\ call.ret.m = 999999

EpochPlusDays(v) == [t |-> "datetime", epoch |-> "1950-01-01", m |-> v.m, e |-> v.e]

\* C22: in every profile row the timestamp is 1950-01-01 plus the row's raw
\* time value in days when that value is present and finite (100.0 gives
\* 1950-01-01 + 100 days), and null when the raw value is null or not finite
\* or the conversion fails; extract_profiles never raises because of the time
\* value.
C22_TimestampFromDays ==
    (call.fn = "extract_profiles" /\ call.done) =>
        /\ ~call.ret.raised
        /\ \A k \in 1..Len(call.ret.df) :
            LET r == call.ret.df[k]
            IN  /\ (r.juld.t \in {"None", "nan", "inf"} => r.datetime = NoneVal)
                /\ (r.juld.t \in {"float", "int"} =>
                        r.datetime \in {EpochPlusDays(r.juld), NoneVal})
                /\ (r.juld \in {F(1, 2), F(-365, 0), I(1, 2)} =>
                        r.datetime = EpochPlusDays(r.juld))

SecondRunEnded == first_run # NoRun /\ pc \in {"done", "raised"}
\* the second run met the same fetch and write outcomes as the first
SameOutcomes ==
    /\ floats = first_run.floats
    /\ Outcomes = first_run.outcomes
    /\ wrote = first_run.wrote

\* C23: relational writes are pure append: after the pipeline has run twice
\* on the same units with the same outcomes, every row of the first run is in
\* the store exactly twice and the row counts are double those of the first
\* run.
C23_SecondRunDoublesRows ==
    (SecondRunEnded /\ SameOutcomes) =>
        \A t \in {"profiles", "measurements"} :
            /\ Len(db[t]) = 2 * Len(first_run.db[t])
            /\ \A k \in 1..Len(db[t]) :
                    Count(db[t][k], db[t]) = 2 * Count(db[t][k], first_run.db[t])

\* both runs wrote the unit's profile row and its measurement row
C23_Witness ==
    /\ SecondRunEnded
    /\ SameOutcomes
    /\ Len(first_run.db.profiles) = 1
    /\ Len(first_run.db.measurements) = 1
    /\ Len(db.profiles) = 2
    /\ Len(db.measurements) = 2

\* the writer has dequeued position i and is through with it
Handled(i) == InSeq(i, written) /\ (item = NoItem \/ item.dataset # i)
ProfilesOf(i) == extract_profiles(datasets[i].content, floats[i])
MeasurementsOf(i) == extract_measurements(datasets[i].content, floats[i])
\* stream_to_sql returned normally for position i
SqlCompleted(i) ==
    \/ ProfilesOf(i) = << >>
    \/ /\ "profiles" \in wrote[i]
       /\ (MeasurementsOf(i) # << >> => "measurements" \in wrote[i])
\* the snapshot write of position i itself raised
ParquetRaised(i) == <<"unit", i>> \in io_errors /\ SqlCompleted(i)

\* C24: with snapshots enabled, for every unit the writer has handled the
\* profile snapshot is written iff the unit has profile rows and the
\* measurement snapshot iff it has measurement rows, whether or not the
\* relational write of the unit succeeded (a snapshot write that itself fails
\* aside); with snapshots disabled no snapshot is written.
C24_SnapshotIffRows ==
    /\ (~save_parquet => parquet = {})
    /\ save_parquet =>
        \A i \in DOMAIN wk : (Handled(i) /\ ~ParquetRaised(i)) =>
            /\ ("pq_profiles" \in wrote[i] <=> ProfilesOf(i) # << >>)
            /\ ("pq_measurements" \in wrote[i] <=> MeasurementsOf(i) # << >>)


\* worker i is writing the body of its download, about to open the downloaded
\* file, or about to delete it
InFlightFile(i) ==
    \/ wk[i].pc \in {"dl_body", "open_local"}
    \/ wk[i].pc = "cleanup" /\ wk[i].local_file # None

\* C25: no two workers with a download in flight write to, open or delete
\* the same temporary file path, also when a unit id was discovered twice.
C25_DistinctTempFiles ==
    \A i, j \in DOMAIN wk :
        (i # j /\ InFlightFile(i) /\ InFlightFile(j)) =>
            local_filename(floats[i]) # local_filename(floats[j])


QueryReturned == call.fn = "query_database" /\ call.done
\* some statement of the text is a DELETE
Modifies(sql) ==
    \E k \in 1..Len(sql) :
        /\ sql[k] = "DELETE"
        /\ \E j \in 0..(k - 1) :
            /\ (j = 0 \/ sql[j] = ";")
            /\ \A m \in (j + 1)..(k - 1) : sql[m] = " "

\* C26: a SQL text with a statement that would modify the store is never
\* passed to the database; the tool returns an error value and the store is
\* left unchanged.
C26_ModifyingNeverPassed ==
    (QueryReturned /\ Modifies(call.sql)) =>
        /\ ~call.ret.passed
        /\ call.ret.value = "error"
        /\ call.ret.store = call.store


\* the dequeued positions whose write steps all completed without error
Completed == {i \in DOMAIN wk : Handled(i) /\ <<"unit", i>> \notin io_errors}
C27_State ==
    /\ (pc \in {"index", "report", "done", "raised"} => wpc = "done")
    /\ (report # None =>
            /\ report[1] = Cardinality(Completed)
            /\ report[1] <= report[2]
            /\ report[2] = Len(floats))
C27_OnlyWriterIncrements ==
    success_count' # success_count =>
        /\ wpc = "finish" /\ writer \in in_write
        /\ success_count' = success_count + 1
        /\ UNCHANGED <<pc, wk>>

\* C27: the success counter is incremented only by the writer, one at a
\* time, and read by the orchestrator only after the writer has exited; the
\* reported count is the number of dequeued units whose write steps all
\* completed without error and is at most the number of attempted units.
C27_CountIsCompletedUnits == []C27_State /\ [][C27_OnlyWriterIncrements]_vars

C27_Witness ==
    /\ report = <<1, 2>>
    /\ Cardinality(Completed) = 1
    /\ \E i \in DOMAIN wk : <<"unit", i>> \in io_errors


\* C28: the dataset of every DATA message that was enqueued is loaded into
\* memory, along the streaming path and along both download paths, so the
\* writer extracts from memory whether or not the temporary file still exists.
C28_EnqueuedIsLoaded ==
    /\ \A k \in 1..Len(enqueued) : datasets[enqueued[k]].loaded
    /\ \A k \in 1..Len(write_queue) :
            IsData(write_queue[k]) => datasets[write_queue[k].dataset].loaded
    /\ (item # NoItem => datasets[item.dataset].loaded)

C28_Witness ==
    /\ wpc = "stream_to_sql"
    /\ wk[item.dataset].local_file # None
    /\ wk[item.dataset].local_file \notin files
    /\ datasets[item.dataset].loaded
    /\ \E i \in DOMAIN wk :
            InSeq(i, enqueued) /\ wk[i].local_file = None /\ datasets[i].loaded


\* C29: when a run has completed, no temporary download file created during
\* the run remains on disk, whatever happened to each unit.
C29_NoTempFileLeft == EndOfRun => files = {}


\* C30: in every final state each unit counted as succeeded has at least one
\* profile row in the relational store, appended during the run.
C30_CountedHasProfileRow ==
    EndOfRun =>
        \A i \in Completed :
            /\ "profiles" \in wrote[i]
            /\ RowsOf("profiles", floats[i]) # {}

====
